---- MODULE Spec2Model ----
(***************************************************************************)
(* Batch document pipeline of the tax document processor.                  *)
(*                                                                         *)
(*   GUI worker : frontend/processing_panel.py  ProcessingWorker.run       *)
(*   CLI        : main.py  main                                            *)
(*   checkpoint : src/utils.py  save_checkpoint / load_checkpoint          *)
(*   settings   : frontend/settings_dialog.py  SettingsDialog.save_settings*)
(*                                                                         *)
(* One run is active at a time.  The checkpoint file lives in              *)
(* config.LOG_DIR, which is read each time save_checkpoint or              *)
(* load_checkpoint is entered.  A write is open(path, 'w') (the file is    *)
(* truncated) followed by json.dump and close (the file holds the list).   *)
(* A process that is killed, or that dies of an unhandled exception,       *)
(* leaves nothing but its files.                                           *)
(***************************************************************************)
EXTENDS Integers, Sequences, FiniteSets, TLC

\* ------------------------------------------------------------------ bounds
MaxDocs == 2
MaxOrphans == 1
MaxCalls == 2
MaxTextLen == 4
MaxEntries == 3
MaxLines == 2

\* ------------------------------------------------------- program constants
DefaultMaxRetries == 3
SpinMinRetries == 1
CheckpointEvery == 5
CopyMaxRetries == 3
ApiMaxRetries == 3
PdfConversionRetries == 3

Docs == 1..MaxDocs
Dirs == {"data/logs", "."}
DefaultLogDir == "data/logs"

\* config.py as deployed: the tunables a run is started with
Configs ==
  {[LOG_DIR |-> DefaultLogDir, MAX_RETRIES |-> DefaultMaxRetries, BATCH_SIZE |-> 2],
   [LOG_DIR |-> DefaultLogDir, MAX_RETRIES |-> DefaultMaxRetries, BATCH_SIZE |-> 1],
   [LOG_DIR |-> DefaultLogDir, MAX_RETRIES |-> SpinMinRetries, BATCH_SIZE |-> 2]}

VARIABLES
  ckptFile,         \* [Dirs -> file]: processing_checkpoint.json of each log dir
  failedLog,        \* the failed_docs_<timestamp>.log this run wrote, <<>> if none
  config,           \* the config module's tunables
  mode,             \* "none" | "gui" | "cli": the kind of the current run
  pc,               \* position of the run
  document_paths,   \* the input list of the run
  remaining_docs,   \* the input list minus the checkpointed paths
  idx,              \* enumerate index of the document loop
  batch_start,      \* CLI: start of the current batch
  processed_paths,  \* in-memory checkpoint set
  retry_count,
  success,
  results,          \* the counters success / failed / retry_success
  failed_docs,
  newly_processed,
  stop_requested,
  err,              \* the exception being handled
  wr,               \* the checkpoint write in progress
  loaded,           \* history: checkpoint set loaded at run start
  started,          \* history: documents started in this run
  nFail,            \* history: failed classify+organize attempts per document
  okDocs,           \* history: documents organize_document returned success for
  firstOk,          \* history: documents whose first attempt met no failure
  contrib,          \* history: counter increments per document
  attemptErr,       \* history: error of the latest failed attempt of the document
  repLast,          \* history: documents reported failed with that error
  finishedDocs,     \* history: documents whose loop iteration ended
  completedEvt,     \* history: documents with document_completed emitted
  inflight,         \* history: the document being processed, 0 if none
  prev,             \* history: summary of the previous run, until the next one has loaded
  resumed,          \* history: this run repeats the list of a run that completed
  resumedFull,      \* history: ... and that run left every path of it persisted
  batchLens,        \* history: CLI: len(current_batch) of each batch begun
  pauses,           \* history: number of time.sleep(config.BATCH_DELAY) made
  start_enabled,    \* ProcessingPanel.start_button is enabled
  orphans,          \* workers still running that the panel no longer refers to
  startCfg,         \* history: the config the run was started with
  org,              \* organize_document: the call in progress and the output tree
  cl,               \* clean_filename: the text given and the results
  lastEvt,          \* history: the latest document event a running worker emitted
  orphanDoc,        \* history: document a replaced worker started and has not ended
  startSeq,         \* history: the documents started in this run, in order
  backoff,          \* history: the sleeps made between attempts of the document
  session,          \* ProcessingPanel.results: entries held, and whether handed on
  ai                \* process_document: the invocation in progress

vars == <<ckptFile, failedLog, config, mode, pc, document_paths, remaining_docs,
          idx, batch_start, processed_paths, retry_count, success, results,
          failed_docs, newly_processed, stop_requested, err, wr, loaded,
          started, nFail, okDocs, firstOk, contrib, attemptErr, repLast,
          finishedDocs, completedEvt, inflight, prev, resumed, resumedFull,
          batchLens, pauses, start_enabled, orphans, startCfg,
          org, cl, lastEvt, orphanDoc, startSeq, backoff, session, ai>>

pacing == <<batchLens, pauses>>
trace == <<lastEvt, orphanDoc, startSeq, backoff, session>>
panel == <<start_enabled, orphans>>
pipeline == <<ckptFile, failedLog, config, mode, pc, document_paths,
              remaining_docs, idx, batch_start, processed_paths, retry_count,
              success, results, failed_docs, newly_processed, stop_requested,
              err, wr, loaded, started, nFail, okDocs, firstOk, contrib,
              attemptErr, repLast, finishedDocs, completedEvt, inflight, prev,
              resumed, resumedFull, pacing, panel, startCfg, trace>>
organizer == <<org>>
cleaner == <<cl>>
classifier == <<ai>>
side == <<cleaner, classifier>>

\* organize_document: position of the call; pdf_path, client_name and
\* document_data; attempt of safe_copy_file / save_metadata; whether the copy
\* and the metadata write of this call succeeded; what the call returned;
\* number of calls made; the latest earlier call that returned success; the
\* output tree when the call was made; the files in the output tree
o_pc == org.pc
o_in == org.in
o_try == org.try
o_copied == org.copied
o_meta == org.meta
o_result == org.result
o_calls == org.calls
o_last == org.last
o_tree0 == org.tree0
tree == org.tree

\* clean_filename: "idle" | "once" | "twice" applied; the text given;
\* clean_filename(text); clean_filename(clean_filename(text))
c_pc == cl.pc
c_in == cl.text
c_out == cl.out
c_out2 == cl.out2

\* process_document: position of the call; the loop variable attempt; the
\* client.messages.create calls of this invocation; the sleeps between the
\* calls; the errors the calls raised, in order; response.content[0].text,
\* a sequence of lines; what the invocation returned or raised
a_pc == ai.pc
a_try == ai.try
a_calls == ai.calls
a_sleeps == ai.sleeps
a_errs == ai.errs
a_text == ai.text
a_out == ai.out
\* client.messages.create and convert_from_path calls made for the document
\* the invocation belongs to, over all its invocations for that document
a_docCalls == ai.docCalls
a_docRenders == ai.docRenders

\* ----------------------------------------------------------------- helpers
Range(s) == {s[i] : i \in 1..Len(s)}

Injective(s) == \A i, j \in 1..Len(s) : i # j => s[i] # s[j]

\* the lists a caller can hand over: no path twice, at least one path
InputLists ==
  {s \in UNION {[1..n -> Docs] : n \in 1..MaxDocs} : Injective(s)}

\* a list comprehension  [p for p in s if p not in drop]
RECURSIVE FilterOut(_, _)
FilterOut(s, drop) ==
  IF s = <<>> THEN <<>>
  ELSE IF Head(s) \in drop THEN FilterOut(Tail(s), drop)
       ELSE <<Head(s)>> \o FilterOut(Tail(s), drop)

Min(a, b) == IF a < b THEN a ELSE b

NoErr == [kind |-> "none", at |-> 0]
ZeroResults == [success |-> 0, failed |-> 0, retry_success |-> 0]
ZeroContrib == [s |-> 0, r |-> 0, f |-> 0]
NoWrite == [on |-> FALSE, dir |-> DefaultLogDir, held |-> {}]
NoPrev == [end |-> "none", docs |-> <<>>, stopped |-> FALSE, completed |-> {},
           persisted |-> FALSE]

AbsentFile == [st |-> "absent", paths |-> {}]
TruncatedFile == [st |-> "corrupt", paths |-> {}]
OkFile(S) == [st |-> "ok", paths |-> S]
NoInput == [pdf |-> 0, client |-> <<>>, dtype |-> <<>>, period |-> <<>>]
NoPath == [dir |-> <<>>, name |-> <<>>]
NoResult == [success |-> FALSE, original_path |-> 0, new_path |-> NoPath,
             error |-> "none"]
NoEvt == [doc |-> 0, kind |-> "none"]
NoSession == [results |-> 0, failed |-> 0, seen |-> FALSE]
NoData == [document_type |-> <<>>, period_year |-> <<>>, institution |-> <<>>,
           account_number |-> <<>>, raw_ai_response |-> <<>>]
NoOutcome == [kind |-> "none", at |-> "none", error |-> "none", data |-> NoData]
NoLast == [valid |-> FALSE, in |-> NoInput, path |-> NoPath]
NoOrg == [pc |-> "idle", in |-> NoInput, try |-> 0, copied |-> FALSE,
          meta |-> FALSE, result |-> NoResult, calls |-> 0, last |-> NoLast,
          tree0 |-> {}, tree |-> {}]
NoClean == [pc |-> "idle", text |-> <<>>, out |-> <<>>, out2 |-> <<>>]
NoInvocation == [pc |-> "idle", try |-> 0, calls |-> 0, sleeps |-> <<>>,
                 errs |-> <<>>, text |-> <<>>, out |-> NoOutcome,
                 docCalls |-> 0, docRenders |-> 0]

\* the file is never read: every run starts from an empty set
LoadNothing(f) == {}

\* ------------------------------------------------------- src/utils.py
\* load_checkpoint: the stored list, [] when the file does not exist
LoadCheckpoint(f) == IF f.st = "ok" THEN f.paths ELSE {}

\* json.load raises on a file that holds no complete JSON document
LoadRaises(f) == f.st = "corrupt"

\* the filter left out: every input path is kept
UnfilteredRemaining(paths, processed) == paths

\* ------------------------------------- frontend/processing_panel.py
\* remaining_docs = [p for p in self.document_paths if str(p) not in processed_paths]
GuiRemaining(paths, processed) == FilterOut(paths, processed)

\* the stop flag is not looked at before a document
NeverBreak(stop) == FALSE

\* the loop is left whether or not a stop was requested
AlwaysBreak(stop) == TRUE

\* if self.stop_requested: ... break
StopBreak(stop) == stop

\* the loop is left one attempt later
WhileOneMore(succ, rc, max, stop) == ~succ /\ rc < max + 1 /\ ~stop

\* while not success and retry_count < config.MAX_RETRIES and not self.stop_requested
WhileCond(succ, rc, max, stop) == ~succ /\ rc < max /\ ~stop

\* if retry_count < config.MAX_RETRIES and not self.stop_requested: sleep, else fail
RetryAgain(rc, max, stop) == rc < max /\ ~stop

\* if retry_count > 0: results['retry_success'] += 1  else: results['success'] += 1
CountSuccess(res, rc) ==
  IF rc > 0 THEN [res EXCEPT !.retry_success = @ + 1]
  ELSE [res EXCEPT !.success = @ + 1]

\* the counter CountSuccess increments, noted for the document
NoteSuccess(c, before, after) ==
  [c EXCEPT !.s = @ + (after.success - before.success),
            !.r = @ + (after.retry_success - before.retry_success)]

\* the path is left out of the set
AddNothing(paths, d) == paths

\* processed_paths.add(str(pdf_path))
AddProcessed(paths, d) == paths \cup {d}

\* every sleep between attempts lasts two seconds
FlatWait(rc) == 2

\* wait_time = retry_count * 2
WaitTime(rc) == rc * 2

\* the loop walks the list from its end
GuiDocFromEnd == remaining_docs[Len(remaining_docs) - idx]

\* the document the loop is at
GuiDoc == remaining_docs[idx + 1]

Idle == pc \in {"idle", "done"}

\* what a run leaves for the next one to be compared with
Summary(how) ==
  [end |-> how, docs |-> document_paths, stopped |-> stop_requested,
   completed |-> loaded \cup (completedEvt \ {inflight}),
   persisted |-> /\ ckptFile[config.LOG_DIR].st = "ok"
                 /\ Range(document_paths) \subseteq ckptFile[config.LOG_DIR].paths]

\* the run repeats the input list of the previous run, which ran to its end
\* without a stop request
Resumes(p, docs) == p.end = "done" /\ ~p.stopped /\ p.docs = docs

\* the state of a run that has not done anything yet
ResetRun(kind, docs, where, p) ==
  /\ mode' = kind
  /\ pc' = where
  /\ document_paths' = docs
  /\ remaining_docs' = <<>>
  /\ idx' = 0
  /\ batch_start' = 0
  /\ processed_paths' = {}
  /\ retry_count' = 0
  /\ success' = FALSE
  /\ results' = ZeroResults
  /\ failed_docs' = <<>>
  /\ newly_processed' = <<>>
  /\ stop_requested' = FALSE
  /\ err' = NoErr
  /\ wr' = NoWrite
  /\ failedLog' = <<>>
  /\ loaded' = {}
  /\ started' = {}
  /\ nFail' = [d \in Docs |-> 0]
  /\ okDocs' = {}
  /\ firstOk' = {}
  /\ contrib' = [d \in Docs |-> ZeroContrib]
  /\ attemptErr' = NoErr
  /\ repLast' = {}
  /\ finishedDocs' = {}
  /\ completedEvt' = {}
  /\ inflight' = 0
  /\ prev' = p
  /\ resumed' = FALSE
  /\ resumedFull' = FALSE
  /\ batchLens' = <<>>
  /\ pauses' = 0
  /\ start_enabled' = FALSE
  /\ startCfg' = config
  /\ startSeq' = <<>>
  /\ backoff' = <<>>

\* the process is gone: killed, or an exception nothing handles
Die(how) ==
  /\ ResetRun("none", <<>>, "idle", Summary(how))
  /\ orphans' = 0
  /\ lastEvt' = NoEvt
  /\ orphanDoc' = 0
  /\ session' = NoSession

\* ProcessingPanel.start_processing: a worker is created and started
StartGui(docs) ==
  /\ Idle
  /\ docs # <<>>
  /\ ResetRun("gui", docs, "load", IF mode = "none" THEN prev ELSE Summary(pc))
  /\ lastEvt' = IF orphanDoc = 0 THEN NoEvt ELSE lastEvt
  /\ session' = [session EXCEPT !.seen = FALSE]
  /\ UNCHANGED <<ckptFile, config, orphans, orphanDoc, organizer, side>>

\* run(), up to the document loop: the checkpoint is loaded
GLoad ==
  /\ mode = "gui" /\ pc = "load"
  /\ LET f == ckptFile[config.LOG_DIR] IN
     IF LoadRaises(f)
     THEN Die("aborted")
     ELSE /\ processed_paths' = LoadCheckpoint(f)
          /\ remaining_docs' = GuiRemaining(document_paths, LoadCheckpoint(f))
          /\ loaded' = LoadCheckpoint(f)
          /\ pc' = "check"
          /\ resumed' = Resumes(prev, document_paths)
          /\ resumedFull' = (Resumes(prev, document_paths) /\ prev.persisted)
          /\ prev' = NoPrev
          /\ UNCHANGED <<failedLog, mode, document_paths, idx, batch_start,
                         retry_count, success, results, failed_docs,
                         newly_processed, stop_requested, err, wr, started,
                         nFail, okDocs, firstOk, contrib, attemptErr, repLast,
                         finishedDocs, completedEvt, inflight, pacing,
                         panel, startCfg,
                 trace, organizer, side>>
  /\ UNCHANGED <<ckptFile, config, organizer, side>>

\* top of the document loop: stop check, progress, document_started
GCheck ==
  /\ mode = "gui" /\ pc = "check"
  /\ IF idx >= Len(remaining_docs) \/ StopBreak(stop_requested)
     THEN /\ pc' = "finish"
          /\ UNCHANGED <<started, retry_count, success, inflight, attemptErr,
                         lastEvt, startSeq, backoff>>
     ELSE /\ started' = started \cup {GuiDoc}
          /\ startSeq' = Append(startSeq, GuiDoc)
          /\ lastEvt' = [doc |-> GuiDoc, kind |-> "started"]
          /\ inflight' = GuiDoc
          /\ retry_count' = 0
          /\ success' = FALSE
          /\ attemptErr' = NoErr
          /\ backoff' = <<>>
          /\ pc' = "while"
  /\ UNCHANGED <<ckptFile, failedLog, config, mode, document_paths,
                 remaining_docs, idx, batch_start, processed_paths, results,
                 failed_docs, newly_processed, stop_requested, err, wr,
                 loaded, nFail, okDocs, firstOk, contrib, repLast,
                 finishedDocs, completedEvt, prev, resumed, resumedFull, pacing, panel, startCfg,
                 orphanDoc, session, organizer, side>>

\* the retry loop is left: pacing delay, next document
GNextBody ==
  /\ mode = "gui" /\ pc = "while"
  /\ ~WhileCond(success, retry_count, config.MAX_RETRIES, stop_requested)
  /\ idx' = idx + 1
  /\ finishedDocs' = finishedDocs \cup {GuiDoc}
  /\ inflight' = 0
  /\ pc' = "check"
  /\ UNCHANGED <<ckptFile, failedLog, config, mode, document_paths,
                 remaining_docs, batch_start, processed_paths, retry_count,
                 success, results, failed_docs, newly_processed,
                 stop_requested, err, wr, loaded, started, nFail, okDocs,
                 firstOk, contrib, attemptErr, repLast, completedEvt, prev, resumed, resumedFull, pacing, panel, startCfg,
                 trace>>

GNext == GNextBody /\ UNCHANGED <<organizer, side>>

\* the body of the while loop: process_document raised ("classify"),
\* organize_document returned success = false ("organize") or true ("ok")
GAttemptBody(outcome) ==
  /\ mode = "gui" /\ pc = "while"
  /\ IF outcome = "ok"
     THEN /\ results' = CountSuccess(results, retry_count)
          /\ contrib' = [contrib EXCEPT ![GuiDoc] =
                           NoteSuccess(@, results, CountSuccess(results, retry_count))]
          /\ success' = TRUE
          /\ processed_paths' = AddProcessed(processed_paths, GuiDoc)
          /\ okDocs' = okDocs \cup {GuiDoc}
          /\ firstOk' = IF nFail[GuiDoc] = 0 THEN firstOk \cup {GuiDoc} ELSE firstOk
          /\ pc' = "save"
          /\ UNCHANGED <<err, attemptErr, nFail>>
     ELSE /\ err' = [kind |-> outcome, at |-> retry_count + 1]
          /\ attemptErr' = [kind |-> outcome, at |-> retry_count + 1]
          /\ nFail' = [nFail EXCEPT ![GuiDoc] = @ + 1]
          /\ pc' = "except"
          /\ UNCHANGED <<results, contrib, success, processed_paths, okDocs,
                         firstOk>>
  /\ UNCHANGED <<ckptFile, failedLog, config, mode, document_paths,
                 remaining_docs, idx, batch_start, retry_count, failed_docs,
                 newly_processed, stop_requested, wr, loaded, started,
                 repLast, finishedDocs, completedEvt, inflight, prev, resumed, resumedFull, pacing, panel, startCfg,
                 trace>>

\* one attempt: process_document, then organize_document
GAttempt(outcome) ==
  /\ WhileCond(success, retry_count, config.MAX_RETRIES, stop_requested)
  /\ GAttemptBody(outcome)
  /\ UNCHANGED <<organizer, side>>

\* except Exception as e: count the attempt, back off or give the document up
GExcept ==
  /\ mode = "gui" /\ pc = "except"
  /\ retry_count' = retry_count + 1
  /\ IF RetryAgain(retry_count + 1, config.MAX_RETRIES, stop_requested)
     THEN /\ backoff' = Append(backoff, WaitTime(retry_count + 1))
          /\ UNCHANGED <<results, failed_docs, contrib, repLast, lastEvt>>
     ELSE /\ results' = [results EXCEPT !.failed = @ + 1]
          /\ failed_docs' = Append(failed_docs, GuiDoc)
          /\ contrib' = [contrib EXCEPT ![GuiDoc].f = @ + 1]
          /\ repLast' = IF err = attemptErr THEN repLast \cup {GuiDoc} ELSE repLast
          /\ lastEvt' = [doc |-> GuiDoc, kind |-> "failed"]
          /\ UNCHANGED backoff
  /\ err' = NoErr
  /\ pc' = "while"
  /\ UNCHANGED <<ckptFile, failedLog, config, mode, document_paths,
                 remaining_docs, idx, batch_start, processed_paths, success,
                 newly_processed, stop_requested, wr, loaded, started, nFail,
                 okDocs, firstOk, attemptErr, finishedDocs, completedEvt,
                 inflight, prev, resumed, resumedFull, pacing, panel, startCfg,
                 orphanDoc, startSeq, session, organizer, side>>

\* self.processing_finished.emit(results)
GFinish ==
  /\ mode = "gui" /\ pc = "finish"
  /\ pc' = "done"
  /\ start_enabled' = TRUE
  /\ UNCHANGED <<ckptFile, failedLog, config, mode, document_paths,
                 remaining_docs, idx, batch_start, processed_paths, retry_count,
                 success, results, failed_docs, newly_processed,
                 stop_requested, err, wr, loaded, started, nFail, okDocs,
                 firstOk, contrib, attemptErr, repLast, finishedDocs,
                 completedEvt, inflight, prev, resumed, resumedFull, pacing,
                 orphans, startCfg,
                 trace, organizer, side>>

\* ProcessingPanel.stop_processing -> ProcessingWorker.request_stop
RequestStop ==
  /\ mode = "gui" /\ ~Idle
  /\ ~stop_requested
  /\ stop_requested' = TRUE
  /\ UNCHANGED <<ckptFile, failedLog, config, mode, pc, document_paths,
                 remaining_docs, idx, batch_start, processed_paths, retry_count,
                 success, results, failed_docs, newly_processed, err, wr,
                 loaded, started, nFail, okDocs, firstOk, contrib, attemptErr,
                 repLast, finishedDocs, completedEvt, inflight, prev, resumed, resumedFull, pacing, panel, startCfg,
                 trace, organizer, side>>

\* ------------------------------------- src/utils.py  save_checkpoint
SaveSites == {"save", "c_save", "c_bsave", "c_fsave"}

\* the document the CLI loop is at: current_batch[idx]
CliDoc == remaining_docs[batch_start + idx + 1]

\* batch_end = min(batch_start + config.BATCH_SIZE, len(pdf_files))
BatchEnd == Min(batch_start + config.BATCH_SIZE, Len(remaining_docs))

\* the pipeline sleeps after every batch, the final one included
PauseAlways(batch_end, n) == TRUE

\* if batch_end < len(pdf_files): time.sleep(config.BATCH_DELAY)
PauseDue(batch_end, n) == batch_end < n

\* save_checkpoint returned: the statements after the call
SaveReturned ==
  /\ wr' = NoWrite
  /\ \/ /\ pc = "save"
        /\ completedEvt' = completedEvt \cup {GuiDoc}
        /\ lastEvt' = [doc |-> GuiDoc, kind |-> "completed"]
        /\ pc' = "while"
        /\ UNCHANGED <<idx, batch_start, finishedDocs, inflight, failedLog,
                       results, failed_docs, contrib, err, pauses>>
     \/ /\ pc = "c_save"
        /\ idx' = idx + 1
        /\ finishedDocs' = finishedDocs \cup {CliDoc}
        /\ inflight' = 0
        /\ pc' = "c_doc"
        /\ UNCHANGED <<batch_start, completedEvt, failedLog, results,
                       failed_docs, contrib, err, pauses, lastEvt>>
     \/ /\ pc = "c_bsave"
        /\ batch_start' = batch_start + config.BATCH_SIZE
        /\ pauses' = IF PauseDue(BatchEnd, Len(remaining_docs))
                     THEN pauses + 1 ELSE pauses
        /\ pc' = "c_batch"
        /\ UNCHANGED <<idx, finishedDocs, inflight, completedEvt, failedLog,
                       results, failed_docs, contrib, err, lastEvt>>
     \/ /\ pc = "c_fsave"
        /\ failedLog' = failed_docs
        /\ pc' = "done"
        /\ UNCHANGED <<idx, batch_start, finishedDocs, inflight, completedEvt,
                       results, failed_docs, contrib, err, pauses, lastEvt>>
  /\ UNCHANGED <<mode, document_paths, remaining_docs, processed_paths,
                 retry_count, success, newly_processed, stop_requested,
                 loaded, started, nFail, okDocs, firstOk, attemptErr, repLast,
                 prev, resumed, resumedFull, batchLens, panel, startCfg,
                 orphanDoc, startSeq, backoff, session, organizer, side>>

\* save_checkpoint raised: the handler that catches it, if any
SaveRaised ==
  \/ /\ pc = "save"
     /\ err' = [kind |-> "save", at |-> retry_count + 1]
     /\ pc' = "except"
     /\ wr' = NoWrite
     /\ UNCHANGED <<idx, batch_start, finishedDocs, inflight, completedEvt,
                    failedLog, results, failed_docs, contrib>>
     /\ UNCHANGED <<mode, document_paths, remaining_docs, processed_paths,
                    retry_count, success, newly_processed, stop_requested,
                    loaded, started, nFail, okDocs, firstOk, attemptErr,
                    repLast, prev, resumed, resumedFull, pacing, panel, startCfg,
                 trace, organizer, side>>
  \/ /\ pc = "c_save"
     /\ results' = [results EXCEPT !.failed = @ + 1]
     /\ failed_docs' = Append(failed_docs, CliDoc)
     /\ contrib' = [contrib EXCEPT ![CliDoc].f = @ + 1]
     /\ idx' = idx + 1
     /\ finishedDocs' = finishedDocs \cup {CliDoc}
     /\ inflight' = 0
     /\ pc' = "c_doc"
     /\ wr' = NoWrite
     /\ UNCHANGED <<batch_start, completedEvt, failedLog, err>>
     /\ UNCHANGED <<mode, document_paths, remaining_docs, processed_paths,
                    retry_count, success, newly_processed, stop_requested,
                    loaded, started, nFail, okDocs, firstOk, attemptErr,
                    repLast, prev, resumed, resumedFull, pacing, panel, startCfg,
                 trace, organizer, side>>
  \/ /\ pc \in {"c_bsave", "c_fsave"}
     /\ Die("aborted")

\* open(checkpoint_path, 'w'): the path is computed from config.LOG_DIR now
SaveOpen(ok) ==
  /\ pc \in SaveSites /\ ~wr.on
  /\ IF ok
     THEN /\ ckptFile' = [ckptFile EXCEPT ![config.LOG_DIR] = TruncatedFile]
          /\ wr' = [on |-> TRUE, dir |-> config.LOG_DIR,
                    held |-> ckptFile[config.LOG_DIR].paths]
          /\ UNCHANGED <<failedLog, mode, pc, document_paths, remaining_docs,
                         idx, batch_start, processed_paths, retry_count,
                         success, results, failed_docs, newly_processed,
                         stop_requested, err, loaded, started, nFail, okDocs,
                         firstOk, contrib, attemptErr, repLast, finishedDocs,
                         completedEvt, inflight, prev, resumed, resumedFull, pacing, panel, startCfg,
                 trace, organizer, side>>
     ELSE /\ SaveRaised
          /\ UNCHANGED ckptFile
  /\ UNCHANGED <<config, organizer, side>>

\* json.dump(processed_files, f) and the close of the file
SaveDump(ok) ==
  /\ pc \in SaveSites /\ wr.on
  /\ IF ok
     THEN /\ ckptFile' = [ckptFile EXCEPT ![wr.dir] = OkFile(processed_paths)]
          /\ SaveReturned
     ELSE /\ SaveRaised
          /\ UNCHANGED ckptFile
  /\ UNCHANGED <<config, organizer, side>>

\* ---------------------------------------------------------- main.py  main
\* names bound where main() evaluates the arguments of organize_document
MainNames ==
  {"logger", "pdf_files", "total_files", "processed_paths", "results",
   "failed_docs", "newly_processed", "batch_start", "batch_end",
   "current_batch", "batch_num", "total_batches", "pbar", "idx", "pdf_path",
   "file_num", "retry_count", "success", "document_data", "config",
   "organize_document", "process_document", "save_checkpoint",
   "load_checkpoint", "save_failed_list", "get_source_documents"}

\* organize_document(pdf_path, document_data, self.client_name)
OrganizeArgs == {"pdf_path", "document_data", "self"}

ArgsRaiseNameError == ~(OrganizeArgs \subseteq MainNames)

\* if processed_paths: pdf_files = [p for p in pdf_files if str(p) not in processed_paths]
CliRemaining(paths, processed) ==
  IF processed # {} THEN FilterOut(paths, processed) ELSE paths

\* while not success and retry_count < config.MAX_RETRIES
CliWhileCond(succ, rc, max) == ~succ /\ rc < max

\* if retry_count < config.MAX_RETRIES: sleep and retry, else the document failed
CliRetryAgain(rc, max) == rc < max

\* if len(newly_processed) % 5 == 0
SaveDue(newly) == Len(newly) % CheckpointEvery = 0

\* main() is entered with a non-empty source directory listing
StartCli(docs) ==
  /\ Idle
  /\ docs # <<>>
  /\ ResetRun("cli", docs, "c_load", IF mode = "none" THEN prev ELSE Summary(pc))
  /\ lastEvt' = IF orphanDoc = 0 THEN NoEvt ELSE lastEvt
  /\ UNCHANGED <<ckptFile, config, orphans, orphanDoc, session, organizer, side>>

\* the checkpoint is loaded and the listing filtered
CLoad ==
  /\ mode = "cli" /\ pc = "c_load"
  /\ LET f == ckptFile[config.LOG_DIR] IN
     IF LoadRaises(f)
     THEN Die("aborted")
     ELSE /\ processed_paths' = LoadCheckpoint(f)
          /\ remaining_docs' = CliRemaining(document_paths, LoadCheckpoint(f))
          /\ loaded' = LoadCheckpoint(f)
          /\ pc' = "c_batch"
          /\ resumed' = Resumes(prev, document_paths)
          /\ resumedFull' = (Resumes(prev, document_paths) /\ prev.persisted)
          /\ prev' = NoPrev
          /\ UNCHANGED <<failedLog, mode, document_paths, idx, batch_start,
                         retry_count, success, results, failed_docs,
                         newly_processed, stop_requested, err, wr, started,
                         nFail, okDocs, firstOk, contrib, attemptErr, repLast,
                         finishedDocs, completedEvt, inflight, pacing,
                         panel, startCfg,
                 trace, organizer, side>>
  /\ UNCHANGED <<ckptFile, config, organizer, side>>

\* for batch_start in range(0, len(pdf_files), config.BATCH_SIZE)
CBatch ==
  /\ mode = "cli" /\ pc = "c_batch"
  /\ IF batch_start >= Len(remaining_docs)
     THEN /\ pc' = "c_fsave"
          /\ UNCHANGED <<idx, batchLens>>
     ELSE /\ idx' = 0
          /\ batchLens' = Append(batchLens, BatchEnd - batch_start)
          /\ pc' = "c_doc"
  /\ UNCHANGED <<ckptFile, failedLog, config, mode, document_paths,
                 remaining_docs, batch_start, processed_paths, retry_count,
                 success, results, failed_docs, newly_processed,
                 stop_requested, err, wr, loaded, started, nFail, okDocs,
                 firstOk, contrib, attemptErr, repLast, finishedDocs,
                 completedEvt, inflight, prev, resumed, resumedFull, pauses,
                 panel, startCfg,
                 trace, organizer, side>>

\* for idx, pdf_path in enumerate(current_batch)
CDoc ==
  /\ mode = "cli" /\ pc = "c_doc"
  /\ IF idx >= BatchEnd - batch_start
     THEN /\ pc' = "c_bsave"
          /\ UNCHANGED <<started, inflight, retry_count, success, attemptErr,
                         startSeq, backoff>>
     ELSE /\ started' = started \cup {CliDoc}
          /\ startSeq' = Append(startSeq, CliDoc)
          /\ inflight' = CliDoc
          /\ retry_count' = 0
          /\ success' = FALSE
          /\ attemptErr' = NoErr
          /\ backoff' = <<>>
          /\ pc' = "c_while"
  /\ UNCHANGED <<ckptFile, failedLog, config, mode, document_paths,
                 remaining_docs, idx, batch_start, processed_paths, results,
                 failed_docs, newly_processed, stop_requested, err, wr,
                 loaded, nFail, okDocs, firstOk, contrib, repLast,
                 finishedDocs, completedEvt, prev, resumed, resumedFull, pacing, panel, startCfg,
                 lastEvt, orphanDoc, session, organizer, side>>

\* one attempt: process_document, then the call of organize_document
CAttempt(outcome) ==
  /\ mode = "cli" /\ pc = "c_while"
  /\ CliWhileCond(success, retry_count, config.MAX_RETRIES)
  /\ firstOk' = IF outcome = "ok" /\ nFail[CliDoc] = 0
                THEN firstOk \cup {CliDoc} ELSE firstOk
  /\ IF outcome = "ok" /\ ~ArgsRaiseNameError
     THEN /\ results' = CountSuccess(results, retry_count)
          /\ contrib' = [contrib EXCEPT ![CliDoc] =
                           NoteSuccess(@, results, CountSuccess(results, retry_count))]
          /\ success' = TRUE
          /\ newly_processed' = Append(newly_processed, CliDoc)
          /\ processed_paths' = AddProcessed(processed_paths, CliDoc)
          /\ okDocs' = okDocs \cup {CliDoc}
          /\ pc' = "c_while"
          /\ UNCHANGED <<err, attemptErr, nFail>>
     ELSE /\ err' = [kind |-> IF outcome = "ok" THEN "name" ELSE outcome,
                     at |-> retry_count + 1]
          /\ attemptErr' = [kind |-> IF outcome = "ok" THEN "name" ELSE outcome,
                            at |-> retry_count + 1]
          /\ nFail' = [nFail EXCEPT ![CliDoc] = @ + 1]
          /\ pc' = "c_except"
          /\ UNCHANGED <<results, contrib, success, processed_paths,
                         newly_processed, okDocs>>
  /\ UNCHANGED <<ckptFile, failedLog, config, mode, document_paths,
                 remaining_docs, idx, batch_start, retry_count, failed_docs,
                 stop_requested, wr, loaded, started, repLast, finishedDocs,
                 completedEvt, inflight, prev, resumed, resumedFull, pacing, panel, startCfg,
                 trace, organizer, side>>

\* except Exception as e (inner): count the attempt, back off or give up
CExcept ==
  /\ mode = "cli" /\ pc = "c_except"
  /\ retry_count' = retry_count + 1
  /\ IF CliRetryAgain(retry_count + 1, config.MAX_RETRIES)
     THEN /\ backoff' = Append(backoff, WaitTime(retry_count + 1))
          /\ UNCHANGED <<results, failed_docs, contrib, repLast>>
     ELSE /\ results' = [results EXCEPT !.failed = @ + 1]
          /\ failed_docs' = Append(failed_docs, CliDoc)
          /\ contrib' = [contrib EXCEPT ![CliDoc].f = @ + 1]
          /\ repLast' = IF err = attemptErr THEN repLast \cup {CliDoc} ELSE repLast
          /\ UNCHANGED backoff
  /\ err' = NoErr
  /\ pc' = "c_while"
  /\ UNCHANGED <<ckptFile, failedLog, config, mode, document_paths,
                 remaining_docs, idx, batch_start, processed_paths, success,
                 newly_processed, stop_requested, wr, loaded, started, nFail,
                 okDocs, firstOk, attemptErr, finishedDocs, completedEvt,
                 inflight, prev, resumed, resumedFull, pacing, panel, startCfg,
                 lastEvt, orphanDoc, startSeq, session, organizer, side>>

\* after the retry loop: progress bar, checkpoint every 5 documents, pacing
CAfter ==
  /\ mode = "cli" /\ pc = "c_while"
  /\ ~CliWhileCond(success, retry_count, config.MAX_RETRIES)
  /\ IF SaveDue(newly_processed)
     THEN /\ pc' = "c_save"
          /\ UNCHANGED <<idx, finishedDocs, inflight>>
     ELSE /\ idx' = idx + 1
          /\ finishedDocs' = finishedDocs \cup {CliDoc}
          /\ inflight' = 0
          /\ pc' = "c_doc"
  /\ UNCHANGED <<ckptFile, failedLog, config, mode, document_paths,
                 remaining_docs, batch_start, processed_paths, retry_count,
                 success, results, failed_docs, newly_processed,
                 stop_requested, err, wr, loaded, started, nFail, okDocs,
                 firstOk, contrib, attemptErr, repLast, completedEvt, prev, resumed, resumedFull, pacing, panel, startCfg,
                 trace, organizer, side>>

\* ------------------------------------------------------------ environment
\* the process is killed
Kill ==
  /\ mode # "none" /\ ~Idle
  /\ Die("killed")
  /\ UNCHANGED <<ckptFile, config, organizer, side>>

\* ------------------------------------------------------ the specification
NothingRun ==
  /\ failedLog = <<>>
  /\ config \in Configs
  /\ mode = "none"
  /\ pc = "idle"
  /\ document_paths = <<>>
  /\ remaining_docs = <<>>
  /\ idx = 0
  /\ batch_start = 0
  /\ processed_paths = {}
  /\ retry_count = 0
  /\ success = FALSE
  /\ results = ZeroResults
  /\ failed_docs = <<>>
  /\ newly_processed = <<>>
  /\ stop_requested = FALSE
  /\ err = NoErr
  /\ wr = NoWrite
  /\ loaded = {}
  /\ started = {}
  /\ nFail = [d \in Docs |-> 0]
  /\ okDocs = {}
  /\ firstOk = {}
  /\ contrib = [d \in Docs |-> ZeroContrib]
  /\ attemptErr = NoErr
  /\ repLast = {}
  /\ finishedDocs = {}
  /\ completedEvt = {}
  /\ inflight = 0
  /\ prev = NoPrev
  /\ resumed = FALSE
  /\ resumedFull = FALSE
  /\ batchLens = <<>>
  /\ pauses = 0
  /\ start_enabled = FALSE
  /\ orphans = 0
  /\ startCfg = config
  /\ org = NoOrg
  /\ cl = NoClean
  /\ lastEvt = NoEvt
  /\ orphanDoc = 0
  /\ startSeq = <<>>
  /\ backoff = <<>>
  /\ session = NoSession
  /\ ai = NoInvocation

\* a fresh installation: no checkpoint file in any log directory
Init ==
  /\ ckptFile = [d \in Dirs |-> AbsentFile]
  /\ NothingRun

GuiStep ==
  \/ GLoad
  \/ GCheck
  \/ GNext
  \/ \E o \in {"classify", "organize", "ok"} : GAttempt(o)
  \/ GExcept
  \/ GFinish

CliStep ==
  \/ CLoad
  \/ CBatch
  \/ CDoc
  \/ \E o \in {"classify", "ok"} : CAttempt(o)
  \/ CExcept
  \/ CAfter

SaveStep == \E ok \in BOOLEAN : SaveOpen(ok) \/ SaveDump(ok)

Next ==
  \/ \E docs \in InputLists : StartGui(docs)
  \/ \E docs \in InputLists : StartCli(docs)
  \/ GuiStep
  \/ CliStep
  \/ SaveStep
  \/ RequestStop
  \/ Kill

Spec == Init /\ [][Next]_vars

\* the paths earlier runs left in the checkpoint file of an installation
\* that has been used before
EarlierDocs == (MaxDocs + 1)..(MaxDocs + CheckpointEvery)

\* an installation whose checkpoint file holds the paths of earlier runs
InitResumed ==
  /\ ckptFile = [d \in Dirs |-> IF d = DefaultLogDir
                                THEN OkFile(EarlierDocs) ELSE AbsentFile]
  /\ NothingRun
  /\ config = [LOG_DIR |-> DefaultLogDir, MAX_RETRIES |-> DefaultMaxRetries,
               BATCH_SIZE |-> 2]

SpecResumed == InitResumed /\ [][Next]_vars

\* ------------------------------------- frontend/settings_dialog.py
\* what the dialog's fields hold when Save is pressed: the values the widgets
\* are created with (empty log_dir, spin boxes at their minimum), or the values
\* of config.py typed back in
DialogFields ==
  {[LOG_DIR |-> ".", MAX_RETRIES |-> SpinMinRetries, BATCH_SIZE |-> 1],
   [LOG_DIR |-> DefaultLogDir, MAX_RETRIES |-> DefaultMaxRetries, BATCH_SIZE |-> 1]}

\* SettingsDialog.save_settings: the dialog's fields are assigned to config
SaveSettings(fields) ==
  /\ mode \in {"none", "gui"}
  /\ config' = fields
  /\ config' # config
  /\ UNCHANGED <<ckptFile, failedLog, mode, pc, document_paths, remaining_docs,
                 idx, batch_start, processed_paths, retry_count, success,
                 results, failed_docs, newly_processed, stop_requested, err,
                 wr, loaded, started, nFail, okDocs, firstOk, contrib,
                 attemptErr, repLast, finishedDocs, completedEvt, inflight,
                 prev, resumed, resumedFull, pacing, panel, startCfg,
                 trace, organizer, side>>

\* the desktop application: runs of the worker, with the settings dialog
NextSettings ==
  \/ \E docs \in InputLists : StartGui(docs)
  \/ GuiStep
  \/ SaveStep
  \/ RequestStop
  \/ \E fields \in DialogFields : SaveSettings(fields)

\* the application starts with the values of config.py
InitSettings ==
  /\ Init
  /\ config = [LOG_DIR |-> DefaultLogDir, MAX_RETRIES |-> DefaultMaxRetries,
               BATCH_SIZE |-> 1]

SpecSettings == InitSettings /\ [][NextSettings]_vars

\* ------------------ frontend/processing_panel.py  the results of the panel
\* the panel's slots run for the signals of the run that ended:
\* on_document_completed and on_document_failed append to self.results,
\* on_processing_finished stores the summary and emits processing_complete
Deliver ==
  /\ mode = "gui" /\ pc = "done"
  /\ ~session.seen
  /\ session.results + session.failed + Cardinality(completedEvt) + results.failed
       <= MaxEntries
  /\ session' = [results |-> session.results + Cardinality(completedEvt),
                 failed |-> session.failed + results.failed,
                 seen |-> TRUE]
  /\ UNCHANGED <<ckptFile, failedLog, config, mode, pc, document_paths,
                 remaining_docs, idx, batch_start, processed_paths,
                 retry_count, success, results, failed_docs, newly_processed,
                 stop_requested, err, wr, loaded, started, nFail, okDocs,
                 firstOk, contrib, attemptErr, repLast, finishedDocs,
                 completedEvt, inflight, prev, resumed, resumedFull, pacing,
                 panel, startCfg, lastEvt, orphanDoc, startSeq, backoff,
                 organizer, side>>

\* one session of the desktop application: runs, one after the other
NextSession ==
  \/ \E docs \in InputLists : StartGui(docs)
  \/ GuiStep
  \/ SaveStep
  \/ RequestStop
  \/ Deliver

SpecSession == InitSettings /\ [][NextSession]_vars

\* --------------------------------- frontend/processing_panel.py  the panel
\* ProcessingPanel.set_documents / set_client_name while a worker runs: with
\* documents and a client name present the start button is enabled
SetDocuments ==
  /\ mode = "gui" /\ ~Idle
  /\ ~start_enabled
  /\ start_enabled' = TRUE
  /\ UNCHANGED <<ckptFile, failedLog, config, mode, pc, document_paths,
                 remaining_docs, idx, batch_start, processed_paths,
                 retry_count, success, results, failed_docs, newly_processed,
                 stop_requested, err, wr, loaded, started, nFail, okDocs,
                 firstOk, contrib, attemptErr, repLast, finishedDocs,
                 completedEvt, inflight, prev, resumed, resumedFull, pacing,
                 orphans, startCfg,
                 trace, organizer, side>>

\* ProcessingPanel.start_processing while the previous worker has not
\* finished: self.processing_worker is replaced, the previous worker runs on
StartAgain(docs) ==
  /\ mode = "gui" /\ ~Idle
  /\ start_enabled
  /\ docs # <<>>
  /\ orphans < MaxOrphans
  /\ orphans' = orphans + 1
  /\ ResetRun("gui", docs, "load", Summary("running"))
  /\ orphanDoc' = IF inflight # 0 /\ lastEvt = [doc |-> inflight, kind |-> "started"]
                  THEN inflight ELSE orphanDoc
  /\ lastEvt' = IF orphanDoc' = 0 THEN NoEvt ELSE lastEvt
  /\ session' = [session EXCEPT !.seen = FALSE]
  /\ UNCHANGED <<ckptFile, config, organizer, side>>

\* a replaced worker calls save_checkpoint with its own set of paths; the
\* write completes or is cut short
OrphanSaves(f) ==
  /\ orphans > 0
  /\ ckptFile' = [ckptFile EXCEPT ![config.LOG_DIR] = f]
  /\ UNCHANGED <<failedLog, config, mode, pc, document_paths,
                 remaining_docs, idx, batch_start, processed_paths,
                 retry_count, success, results, failed_docs, newly_processed,
                 stop_requested, err, wr, loaded, started, nFail, okDocs,
                 firstOk, contrib, attemptErr, repLast, finishedDocs,
                 completedEvt, inflight, prev, resumed, resumedFull, pacing,
                 panel, startCfg,
                 trace, organizer, side>>

\* a replaced worker emits processing_finished: on_processing_finished
OrphanFinished ==
  /\ orphans > 0
  /\ orphans' = orphans - 1
  /\ start_enabled' = TRUE
  /\ orphanDoc' \in IF orphans = 1 THEN {0} ELSE {0, orphanDoc}
  /\ UNCHANGED <<ckptFile, failedLog, config, mode, pc, document_paths,
                 remaining_docs, idx, batch_start, processed_paths,
                 retry_count, success, results, failed_docs, newly_processed,
                 stop_requested, err, wr, loaded, started, nFail, okDocs,
                 firstOk, contrib, attemptErr, repLast, finishedDocs,
                 completedEvt, inflight, prev, resumed, resumedFull, pacing,
                 startCfg, lastEvt, startSeq, backoff, session,
                 organizer, side>>

\* a replaced worker ends the document it was at when it was replaced:
\* document_completed or document_failed is emitted to the same panel
OrphanTerminal(kind) ==
  /\ orphans > 0
  /\ orphanDoc # 0
  /\ lastEvt' = [doc |-> orphanDoc, kind |-> kind]
  /\ orphanDoc' = 0
  /\ UNCHANGED <<ckptFile, failedLog, config, mode, pc, document_paths,
                 remaining_docs, idx, batch_start, processed_paths,
                 retry_count, success, results, failed_docs, newly_processed,
                 stop_requested, err, wr, loaded, started, nFail, okDocs,
                 firstOk, contrib, attemptErr, repLast, finishedDocs,
                 completedEvt, inflight, prev, resumed, resumedFull, pacing,
                 panel, startCfg, startSeq, backoff, session,
                 organizer, side>>

\* the number of ProcessingWorker threads that are running
RunningWorkers == orphans + (IF mode = "gui" /\ ~Idle THEN 1 ELSE 0)

\* the desktop application: the panel's buttons and its workers
NextPanel ==
  \/ \E docs \in InputLists : StartGui(docs)
  \/ GuiStep
  \/ SaveStep
  \/ RequestStop
  \/ SetDocuments
  \/ \E docs \in InputLists : StartAgain(docs)
  \/ \E f \in {TruncatedFile} \cup {OkFile(S) : S \in SUBSET Docs} : OrphanSaves(f)
  \/ OrphanFinished
  \/ \E k \in {"completed", "failed"} : OrphanTerminal(k)

SpecPanel == InitSettings /\ [][NextPanel]_vars

\* ------------------------------------------------------ src/utils.py
\* Strings are sequences of characters.  The characters of the inputs:
Space == " "
WordChars == {"A", "B", "J", "r", "S", "I", "V", "W", "x", "2", "3", "4", "_",
              "u", "n", "k", "o", "w", "O", "i", "e"}
KeptChars == WordChars \cup {"'", "-"}
Unknown == <<"u", "n", "k", "n", "o", "w", "n">>

\* Jr\.?|Sr\.?|I{1,3}|IV|V
NameSuffixes ==
  {<<"J", "r">>, <<"J", "r", ".">>, <<"S", "r">>, <<"S", "r", ".">>,
   <<"I">>, <<"I", "I">>, <<"I", "I", "I">>, <<"I", "V">>, <<"V">>}

\* positions where \s+(suffix)$ matches
SuffixMatches(t) ==
  {i \in 1..Len(t) :
     \E j \in (i + 1)..Len(t) :
       /\ \A m \in i..(j - 1) : t[m] = Space
       /\ SubSeq(t, j, Len(t)) \in NameSuffixes}

\* re.sub(r'\s+(Jr\.?|Sr\.?|I{1,3}|IV|V)$', '', text): the leftmost match
StripSuffix(t) ==
  IF SuffixMatches(t) = {} THEN t
  ELSE LET i == CHOOSE m \in SuffixMatches(t) : \A o \in SuffixMatches(t) : m <= o
       IN SubSeq(t, 1, i - 1)

\* text.replace(' ', '_')
Underscored(t) == [i \in 1..Len(t) |-> IF t[i] = Space THEN "_" ELSE t[i]]

\* re.sub(r'[^\w\'\-]', '', cleaned)
RECURSIVE OnlyKept(_)
OnlyKept(t) ==
  IF t = <<>> THEN <<>>
  ELSE IF Head(t) \in KeptChars THEN <<Head(t)>> \o OnlyKept(Tail(t))
  ELSE OnlyKept(Tail(t))

\* runs of underscores are left as they are
NotCollapsed(t) == t

\* re.sub(r'_+', '_', cleaned)
RECURSIVE Collapsed(_)
Collapsed(t) ==
  IF Len(t) < 2 THEN t
  ELSE IF t[1] = "_" /\ t[2] = "_" THEN Collapsed(Tail(t))
  ELSE <<Head(t)>> \o Collapsed(Tail(t))

clean_filename(t) ==
  IF t = <<>> THEN Unknown
  ELSE Collapsed(OnlyKept(Underscored(StripSuffix(t))))

\* the texts clean_filename is applied to: letters, the letters of the name
\* suffixes, space, underscore, full stop, apostrophe and hyphen
CleanChars == {"A", "J", "r", "I", Space, "_", ".", "'", "-"}
Texts(k) == [1..k -> CleanChars]

\* clean_filename(text) is called
CleanCall(t) ==
  /\ c_pc = "idle"
  /\ cl' = [cl EXCEPT !.text = t, !.out = clean_filename(t), !.pc = "once"]
  /\ UNCHANGED <<pipeline, organizer, classifier>>

\* clean_filename is called with what it returned
CleanAgain ==
  /\ c_pc = "once"
  /\ cl' = [cl EXCEPT !.out2 = clean_filename(c_out), !.pc = "twice"]
  /\ UNCHANGED <<pipeline, organizer, classifier>>

NextClean ==
  \/ c_pc = "idle" /\ \E k \in 0..MaxTextLen : \E t \in Texts(k) : CleanCall(t)
  \/ CleanAgain

SpecClean == InitSettings /\ [][NextClean]_vars


\* ------------------------------------------------ src/ai_processor.py
\* A response text is a sequence of lines, a line a sequence of pieces: the
\* keywords in the letter case the model writes them, ":", "/", " " and
\* values.
Lower(piece) ==
  CASE piece = "Document type" -> "document type"
    [] piece = "Period" -> "period"
    [] piece = "Year" -> "year"
    [] piece = "Institution" -> "institution"
    [] piece = "Payer" -> "payer"
    [] piece = "Account number" -> "account number"
    [] piece = "Tax" -> "tax"
    [] piece = "Hello" -> "hello"
    [] piece = "Bank" -> "bank"
    [] OTHER -> piece

\* line.lower()
LowerLine(l) == [i \in 1..Len(l) |-> Lower(l[i])]

\* str.strip()
RECURSIVE LStrip(_)
LStrip(l) == IF l # <<>> /\ Head(l) = " " THEN LStrip(Tail(l)) ELSE l
RECURSIVE RStrip(_)
RStrip(l) ==
  IF l # <<>> /\ l[Len(l)] = " " THEN RStrip(SubSeq(l, 1, Len(l) - 1)) ELSE l
Strip(l) == RStrip(LStrip(l))

\* `sub in line`
Contains(l, sub) ==
  \E i \in 1..(Len(l) - Len(sub) + 1) : SubSeq(l, i, i + Len(sub) - 1) = sub

\* line.split(":", 1): the parts before and after the first colon
ColonAt(l) == {i \in 1..Len(l) : l[i] = ":"}
Split1(l) ==
  IF ColonAt(l) = {} THEN <<l>>
  ELSE LET i == CHOOSE m \in ColonAt(l) : \A o \in ColonAt(l) : m <= o
       IN <<SubSeq(l, 1, i - 1), SubSeq(l, i + 1, Len(l))>>

\* the branch of the if / elif chain the stripped line takes
LineCategory(l) ==
  LET low == LowerLine(l) IN
  IF Contains(low, <<"document type", ":">>) THEN "document_type"
  ELSE IF Contains(low, <<"period">>) \/ Contains(low, <<"year">>) THEN "period_year"
  ELSE IF Contains(low, <<"institution">>) \/ Contains(low, <<"payer">>)
       THEN "institution"
  ELSE IF Contains(low, <<"account number">>) THEN "account_number"
  ELSE "none"

\* the state of parse_ai_response between two lines
ParseStart(text) ==
  [raised |-> FALSE,
   data |-> [document_type |-> <<>>, period_year |-> <<>>, institution |-> <<>>,
             account_number |-> <<>>, raw_ai_response |-> text]]

\* one iteration of `for line in text.split('\n')`: line.split(":", 1)[1]
\* is an IndexError when the line has no colon
ParseLine(st, line) ==
  LET l == Strip(line)
      cat == LineCategory(l)
  IN IF st.raised \/ l = <<>> \/ cat = "none" THEN st
     ELSE IF Len(Split1(l)) < 2 THEN [st EXCEPT !.raised = TRUE]
     ELSE [st EXCEPT !.data[cat] = Strip(Split1(l)[2])]

\* parse_ai_response(text)
RECURSIVE ParseFrom(_, _)
ParseFrom(st, lines) ==
  IF lines = <<>> THEN st ELSE ParseFrom(ParseLine(st, Head(lines)), Tail(lines))
parse_ai_response(text) == ParseFrom(ParseStart(text), text)

\* the lines a response is made of
Lines ==
  {<<"Document type", ":", " ", "W-2">>,
   <<"Document type", ":", " ", "1099">>,
   <<"Period", "/", "Year", ":", " ", "2023">>,
   <<"Institution", ":", " ", "Bank">>,
   <<"Account number", ":", " ", "1234">>,
   <<"Tax", " ", "year", " ", "2023">>,
   <<"Hello">>,
   <<" ">>}
Responses == UNION {[1..k -> Lines] : k \in 0..MaxLines}

\* the exceptions client.messages.create raises
ApiErrors == {"timeout", "overloaded"}

\* the sleep grows by two seconds per failed call
ApiBackoffLinear(attempt) == 2 * (attempt + 1)

\* backoff = 2 ** attempt
ApiBackoff(attempt) == 2 ^ attempt

\* the outer `except Exception as e: ... raise` of process_document
ProcRaise(where, e) ==
  [ai EXCEPT !.out = [kind |-> "raised", at |-> where, error |-> e, data |-> NoData],
             !.pc = "raised"]

\* process_document(pdf_path) is called
ProcCall ==
  /\ a_pc \in {"idle", "returned", "raised"}
  /\ ai' = [NoInvocation EXCEPT !.pc = "convert"]
  /\ UNCHANGED <<pipeline, organizer, cleaner>>

\* one iteration of the convert_from_path loop
ProcConvert(ok) ==
  /\ a_pc = "convert"
  /\ ai' = IF ok THEN [ai EXCEPT !.pc = "api", !.try = 0, !.docRenders = @ + 1]
           ELSE IF a_try < PdfConversionRetries - 1
                THEN [ai EXCEPT !.try = @ + 1, !.docRenders = @ + 1]
                ELSE [ProcRaise("convert", "conversion")
                        EXCEPT !.docRenders = @ + 1]
  /\ UNCHANGED <<pipeline, organizer, cleaner>>

\* one iteration of `for attempt in range(config.API_MAX_RETRIES)`: the call
\* returns a response, or raises e
ProcApi(ok, e, text) ==
  /\ a_pc = "api"
  /\ ai' = IF ok
           THEN [ai EXCEPT !.calls = @ + 1, !.docCalls = @ + 1,
                           !.text = text, !.pc = "parse"]
           ELSE IF a_try < ApiMaxRetries - 1
                THEN [ai EXCEPT !.calls = @ + 1, !.docCalls = @ + 1,
                                !.errs = Append(@, e),
                                !.sleeps = Append(@, ApiBackoff(a_try)),
                                !.try = @ + 1]
                ELSE [ProcRaise("api", e) EXCEPT !.calls = @ + 1,
                                                 !.docCalls = @ + 1,
                                                 !.errs = Append(@, e)]
  /\ UNCHANGED <<pipeline, organizer, cleaner>>

\* extracted_text = response.content[0].text; parse_ai_response; return
ProcParse ==
  /\ a_pc = "parse"
  /\ ai' = IF parse_ai_response(a_text).raised
           THEN ProcRaise("parse", "IndexError")
           ELSE [ai EXCEPT !.out = [kind |-> "returned", at |-> "parse",
                                    error |-> "none",
                                    data |-> parse_ai_response(a_text).data],
                           !.pc = "returned"]
  /\ UNCHANGED <<pipeline, organizer, cleaner>>

NextClassify ==
  \/ ProcCall
  \/ \E ok \in BOOLEAN : ProcConvert(ok)
  \/ \E text \in Responses : ProcApi(TRUE, "none", text)
  \/ \E e \in ApiErrors : ProcApi(FALSE, e, <<>>)
  \/ ProcParse

SpecClassify == InitSettings /\ [][NextClassify]_vars

\* ------------------------ frontend/processing_panel.py with ai_processor.py
\* document_data = process_document(pdf_path) in the worker's retry loop
GClassify ==
  /\ mode = "gui" /\ pc = "while"
  /\ a_pc = "idle"
  /\ WhileCond(success, retry_count, config.MAX_RETRIES, stop_requested)
  /\ ai' = [NoInvocation EXCEPT !.pc = "convert",
                                !.docCalls = a_docCalls,
                                !.docRenders = a_docRenders]
  /\ UNCHANGED <<pipeline, organizer, cleaner>>

\* process_document raised or returned, and organize_document was called on
\* what it returned: the rest of the loop body
GClassified ==
  /\ a_pc \in {"returned", "raised"}
  /\ \E outcome \in IF a_pc = "raised" THEN {"classify"} ELSE {"organize", "ok"} :
       GAttemptBody(outcome)
  /\ ai' = [NoInvocation EXCEPT !.docCalls = a_docCalls,
                                !.docRenders = a_docRenders]
  /\ UNCHANGED <<organizer, cleaner>>

\* the retry loop is left: the call counts of the document end here
GLeave ==
  /\ a_pc = "idle"
  /\ GNextBody
  /\ ai' = NoInvocation
  /\ UNCHANGED <<organizer, cleaner>>

\* the responses of at most one line
ShortResponses == {r \in Responses : Len(r) <= 1}

\* the worker thread is inside process_document or at a step of run()
WorkerStep ==
  \/ a_pc = "idle" /\ (GLoad \/ GCheck \/ GExcept \/ GFinish)
  \/ GLeave
  \/ GClassify
  \/ \E ok \in BOOLEAN : ProcConvert(ok)
  \/ \E text \in ShortResponses : ProcApi(TRUE, "none", text)
  \/ ProcApi(FALSE, "timeout", <<>>)
  \/ ProcParse
  \/ GClassified

\* the worker is started on one document at a time
SingleDocument == {docs \in InputLists : Len(docs) = 1}

NextBudget ==
  \/ \E docs \in SingleDocument : StartGui(docs)
  \/ WorkerStep
  \/ SaveStep
  \/ RequestStop

SpecBudget == InitSettings /\ [][NextBudget]_vars

\* ------------------------------------------------ src/file_handler.py
\* the strings the calls are made with
ClientNames == {<<"A">>, <<"A", " ", "J", "r">>}
DocTypes == {<<"W", "2">>, <<>>}
Periods ==
  {<<"2", "3">>,
   <<"2", "3", "/", "2", "4">>,
   <<"/", ".", ".", "/", ".", ".", "/", "x">>}

\* a path component kept by pathlib: not empty and not '.'
KeptComponent(c) == c # <<>> /\ c # <<".">>

\* the components of a relative path string
RECURSIVE SplitPath(_, _, _)
SplitPath(t, cur, acc) ==
  IF t = <<>>
  THEN IF KeptComponent(cur) THEN Append(acc, cur) ELSE acc
  ELSE IF Head(t) = "/"
       THEN SplitPath(Tail(t), <<>>,
                      IF KeptComponent(cur) THEN Append(acc, cur) ELSE acc)
       ELSE SplitPath(Tail(t), Append(cur, Head(t)), acc)

\* a step above the processed root
Above == <<"^">>

\* the directory the file system reaches from dir through the components
RECURSIVE Walk(_, _)
Walk(dir, comps) ==
  IF comps = <<>> THEN dir
  ELSE IF Head(comps) = <<".", ".">>
       THEN Walk(IF dir = <<>> \/ dir[Len(dir)] = Above
                 THEN Append(dir, Above)
                 ELSE SubSeq(dir, 1, Len(dir) - 1),
                 Tail(comps))
       ELSE Walk(Append(dir, Head(comps)), Tail(comps))

\* client_dir = config.PROCESSED_DIR / client_clean, relative to the root
ClientDir(in) ==
  IF clean_filename(in.client) = <<>> THEN <<>> ELSE <<clean_filename(in.client)>>

\* a file name that also carries the source document
NewFilenamePerSource(in) ==
  clean_filename(in.client) \o <<"_">> \o clean_filename(in.dtype) \o <<"_">>
    \o in.period \o [i \in 1..in.pdf |-> "x"] \o <<".pdf">>

\* new_filename = f"{client_clean}_{doc_type_clean}_{period}.pdf"
NewFilename(in) ==
  clean_filename(in.client) \o <<"_">> \o clean_filename(in.dtype) \o <<"_">>
    \o in.period \o <<".pdf">>

\* dest_path = client_dir / new_filename: the directory and the file name
DestPath(in) ==
  LET comps == SplitPath(NewFilename(in), <<>>, <<>>)
  IN [dir |-> Walk(ClientDir(in), SubSeq(comps, 1, Len(comps) - 1)),
      name |-> comps[Len(comps)]]

\* Path.with_suffix('.json'): a name that is only '.pdf' has no suffix
WithSuffixJson(name) ==
  IF Len(name) = 1 THEN Append(name, ".json")
  ELSE Append(SubSeq(name, 1, Len(name) - 1), ".json")

\* Path.stem
Stem(name) == IF Len(name) = 1 THEN name ELSE SubSeq(name, 1, Len(name) - 1)

MetadataPath(path) == [dir |-> path.dir, name |-> WithSuffixJson(path.name)]

\* the directory lies in client_dir or below it
Under(base, dir) ==
  /\ Len(dir) >= Len(base)
  /\ SubSeq(dir, 1, Len(base)) = base

\* the except clause lets every exception through
CatchesNothing(e) == FALSE

\* except Exception as e
OrganizeCatches(e) == TRUE

\* the except branch of organize_document
OrgExcept(e) ==
  IF OrganizeCatches(e)
  THEN [org EXCEPT !.result = [success |-> FALSE, original_path |-> o_in.pdf,
                               new_path |-> NoPath, error |-> e],
                   !.pc = "returned", !.try = 0]
  ELSE [org EXCEPT !.pc = "raised", !.try = 0]

\* organize_document(pdf_path, document_data, client_name) is called
OrgCall(pdf, client, dtype, period) ==
  /\ o_pc \in {"idle", "returned"}
  /\ o_calls < MaxCalls
  /\ org' = [org EXCEPT
               !.calls = @ + 1,
               !.in = [pdf |-> pdf, client |-> client, dtype |-> dtype,
                       period |-> period],
               !.pc = "mkdir",
               !.try = 0,
               !.copied = FALSE,
               !.meta = FALSE,
               !.result = NoResult,
               !.last = IF o_result.success
                        THEN [valid |-> TRUE, in |-> o_in, path |-> o_result.new_path]
                        ELSE @,
               !.tree0 = tree]
  /\ UNCHANGED <<pipeline, side>>

\* the names are cleaned and client_dir.mkdir(parents=True, exist_ok=True)
OrgMkdir(ok) ==
  /\ o_pc = "mkdir"
  /\ org' = IF ok THEN [org EXCEPT !.pc = "copy"]
            ELSE [OrgExcept("mkdir") EXCEPT !.try = o_try]
  /\ UNCHANGED <<pipeline, side>>

\* one attempt of safe_copy_file
OrgCopy(ok) ==
  /\ o_pc = "copy"
  /\ org' = IF ok
            THEN [org EXCEPT !.tree = @ \cup {DestPath(o_in)}, !.copied = TRUE,
                             !.try = 0, !.pc = "meta"]
            ELSE IF o_try < CopyMaxRetries - 1
                 THEN [org EXCEPT !.try = @ + 1]
                 ELSE OrgExcept("copy")
  /\ UNCHANGED <<pipeline, side>>

\* one attempt of save_metadata, and the return of the result
OrgMeta(ok) ==
  /\ o_pc = "meta"
  /\ org' = IF ok
            THEN [org EXCEPT !.tree = @ \cup {MetadataPath(DestPath(o_in))},
                             !.meta = TRUE, !.try = 0,
                             !.result = [success |-> TRUE,
                                         original_path |-> o_in.pdf,
                                         new_path |-> DestPath(o_in),
                                         error |-> "none"],
                             !.pc = "returned"]
            ELSE IF o_try < CopyMaxRetries - 1
                 THEN [org EXCEPT !.try = @ + 1]
                 ELSE OrgExcept("metadata")
  /\ UNCHANGED <<pipeline, side>>

NextOrganize ==
  \/ \E pdf \in Docs, c \in ClientNames, t \in DocTypes, y \in Periods :
       OrgCall(pdf, c, t, y)
  \/ \E ok \in BOOLEAN : OrgMkdir(ok)
  \/ \E ok \in BOOLEAN : OrgCopy(ok)
  \/ \E ok \in BOOLEAN : OrgMeta(ok)

SpecOrganize == InitSettings /\ [][NextOrganize]_vars

\* ------------------------------------------------------------------ claims

\* C1: a run never processes a path that is in the checkpoint it loaded at its
\* start: no such path is started, no classify or organize call is made for it
\* and no counter changes for it, in the GUI worker and in the CLI pipeline.
C1_SkipsCheckpointed ==
  \A d \in loaded :
    /\ d \notin started
    /\ nFail[d] = 0
    /\ d \notin okDocs
    /\ contrib[d] = ZeroContrib

\* a finished run that skipped a checkpointed input path and processed another
C1_Witness ==
  /\ pc = "done"
  /\ loaded \cap Range(document_paths) # {}
  /\ started # {}

\* C2 as stated: the second of two runs over the same input list, the first
\* having run to its end, processes zero documents and reports 0 / 0 / 0.
C2_SecondRunEmpty ==
  (resumed /\ pc = "done") => (started = {} /\ results = ZeroResults)

\* C2 amended: when the first run ended with every input path in the persisted
\* checkpoint file, the second run over the same list processes zero documents
\* and reports 0 / 0 / 0.
C2_SecondRunEmptyIfPersisted ==
  resumedFull =>
    /\ remaining_docs = <<>>
    /\ started = {}
    /\ results = ZeroResults

\* a second run over a fully persisted list has ended
C2_Witness == resumedFull /\ pc = "done" /\ mode = "gui"

\* C3: in the GUI worker a document that succeeds on its first attempt
\* increments only success, one that succeeds on a later attempt increments
\* only retry_success, and failed is incremented in neither case.
C3_SuccessCountedOnce ==
  mode = "gui" =>
    \A d \in okDocs :
      contrib[d] = IF d \in firstOk THEN [s |-> 1, r |-> 0, f |-> 0]
                   ELSE [s |-> 0, r |-> 1, f |-> 0]

\* C4: in the CLI a document whose classifier call, copy and metadata write
\* all succeed on the first attempt is counted in success only and its path is
\* added to the checkpoint set.
C4_CliFirstAttemptSuccess ==
  mode = "cli" =>
    \A d \in firstOk \cap finishedDocs :
      /\ contrib[d] = [s |-> 1, r |-> 0, f |-> 0]
      /\ d \in processed_paths

\* C5: a document all of whose MAX_RETRIES attempts failed is counted in failed
\* exactly once, is reported with the error of its last attempt, and is in
\* neither the in-memory checkpoint set nor the checkpoint file.
C5_ExhaustionFailsOnce ==
  \A d \in finishedDocs :
    (nFail[d] = config.MAX_RETRIES /\ d \notin okDocs) =>
      /\ contrib[d].f = 1
      /\ d \in repLast
      /\ d \notin processed_paths
      /\ d \notin ckptFile[config.LOG_DIR].paths

\* C6: in the GUI worker a document none of whose attempts succeeded is
\* recorded as failed only after exactly MAX_RETRIES attempts, whenever
\* request_stop arrives.
C6_FailedOnlyAfterMaxRetries ==
  mode = "gui" =>
    \A d \in Docs \ okDocs :
      contrib[d].f > 0 => nFail[d] = config.MAX_RETRIES

\* C7: when the next document is started, every document organized before it
\* in this run is in the persisted checkpoint file.
C7_WriteThrough ==
  [][(started \subseteq started' /\ started' # started) =>
       \A d \in okDocs :
         /\ ckptFile[config.LOG_DIR].st = "ok"
         /\ d \in ckptFile[config.LOG_DIR].paths]_vars

\* C8: the checkpoint the run after a kill loads holds every document that
\* had completed before the kill, the one in flight excepted.
C8_KillLosesAtMostInFlight ==
  [][(pc \in {"load", "c_load"} /\ prev.end = "killed" /\ pc' # pc
        /\ prev'.end # "killed") =>
       prev.completed \subseteq
         (IF pc' \in {"check", "c_batch"} THEN loaded' ELSE {})]_vars

\* C9: every completed save_checkpoint leaves in the file a superset of the
\* list the file held before, across runs, stops and settings saves.
C9_CheckpointOnlyGrows ==
  [][(wr.on /\ ckptFile'[wr.dir].st = "ok") =>
       wr.held \subseteq ckptFile'[wr.dir].paths]_vars

\* the worker has seen the stop flag at its per-document check
Halted == mode = "gui" /\ stop_requested /\ pc \in {"check", "finish", "done"}

\* C10: once the stop flag is set and the worker is at its per-document check,
\* the run starts no further document, makes no further call and changes no
\* counter, and a document that was not started has no outcome.
C10_StopHaltsRun ==
  /\ [](\A d \in Docs \ started :
          /\ contrib[d] = ZeroContrib
          /\ nFail[d] = 0
          /\ d \notin okDocs
          /\ d \notin completedEvt
          /\ d \notin (processed_paths \ loaded))
  /\ [][(Halted /\ pc' \notin {"load", "c_load", "idle"}) =>
          /\ pc' \in {"finish", "done"}
          /\ UNCHANGED <<started, nFail, okDocs, results, contrib,
                         processed_paths, completedEvt, failed_docs, ckptFile>>]_vars

\* a stopped run has ended with documents of its list never started
C10_Witness ==
  /\ mode = "gui" /\ stop_requested /\ pc = "done"
  /\ started # {}
  /\ Cardinality(started) < Len(remaining_docs)

\* the documents the run counted as succeeded, at once or after a retry
CountedSucceeded == {d \in Docs : contrib[d].s + contrib[d].r > 0}

\* C11: when a cancelled or a normally completed run has finished, the
\* checkpoint file holds the checkpoint loaded at the start of the run plus
\* exactly the paths counted in success or retry_success, and only documents
\* that were attempted are counted in the summary.
C11_FileMatchesOutcome ==
  pc = "done" =>
    /\ ~LoadRaises(ckptFile[config.LOG_DIR])
    /\ LoadCheckpoint(ckptFile[config.LOG_DIR]) = loaded \cup CountedSucceeded
    /\ \A d \in Docs \ started : contrib[d] = ZeroContrib

\* C12: a run started by the GUI ends by emitting processing_finished: the
\* worker goes away without it only when the process is killed.
C12_GuiRunEndsByFinishing ==
  [][(mode = "gui" /\ mode' = "none") => prev'.end = "killed"]_vars

\* C13: no error of one document aborts the run: a run is abandoned only in
\* load_checkpoint or in the checkpoint write after a batch or at the end,
\* and a run that finished without a stop request has started every document
\* of its remaining list, in the GUI worker and in the CLI.
C13_FailureDoesNotAbort ==
  /\ []((pc = "done" /\ ~stop_requested) => Range(remaining_docs) \subseteq started)
  /\ [][(prev'.end = "aborted" /\ prev.end # "aborted") =>
          pc \in {"load", "c_load", "c_bsave", "c_fsave"}]_vars

\* a run without a stop request has ended; its first document failed for good
\* and its second document was started after it
C13_Witness ==
  /\ pc = "done" /\ ~stop_requested
  /\ Len(remaining_docs) = 2
  /\ contrib[remaining_docs[1]].f > 0
  /\ remaining_docs[1] \notin okDocs
  /\ remaining_docs[2] \in started

\* C14: a save_checkpoint that raises ends the run: the step in which a
\* checkpoint write fails leaves no run behind, neither a retry nor a failed
\* document nor a next document.
C14_SaveFailureIsFatal ==
  [][(/\ pc \in SaveSites
      /\ pc' # pc
      /\ ~(wr.on /\ ckptFile'[wr.dir].st = "ok")
      /\ prev'.end # "killed") =>
       (mode' = "none" /\ prev'.end = "aborted")]_vars

\* ceil(n / b)
CeilDiv(n, b) == (n + b - 1) \div b

\* C15: in the CLI the n remaining documents are processed in ceil(n/B)
\* contiguous batches of B documents, the last one possibly shorter, and the
\* pipeline pauses BATCH_DELAY once between two consecutive batches and not
\* after the final batch.
C15_BatchPacing ==
  mode = "cli" =>
    LET n == Len(remaining_docs)
        B == config.BATCH_SIZE
        k == Len(batchLens)
    IN /\ k <= CeilDiv(n, B)
       /\ \A i \in 1..k : batchLens[i] = Min(B, n - B * (i - 1))
       /\ started = {remaining_docs[i] : i \in 1..Cardinality(started)}
       /\ Cardinality(started) <= B * k
       /\ pauses = IF pc = "c_batch" /\ batch_start < n THEN k
                   ELSE IF k = 0 THEN 0 ELSE k - 1
       /\ pc = "done" => k = CeilDiv(n, B)

\* a CLI run of two batches has ended with one pause made
C15_Witness ==
  /\ mode = "cli" /\ pc = "done"
  /\ Len(batchLens) = 2
  /\ pauses = 1

\* C16: in the GUI worker no more than BATCH_SIZE documents are started
\* between two BATCH_DELAY pauses.
C16_GuiBatchPacing ==
  mode = "gui" => Cardinality(started) <= config.BATCH_SIZE * (pauses + 1)

\* C17: at most one ProcessingWorker is running at a time, whatever the
\* sequence of set_documents, set_client_name, start_processing and
\* stop_processing.
C17_SingleWorker == RunningWorkers <= 1

\* C18: a run behaves by the configuration it was started with: the number
\* of attempts made for a document, the outcome a started document reaches and
\* the checkpoint file written are those of the starting MAX_RETRIES and
\* LOG_DIR, whatever settings are saved while the worker runs.
C18_ConfigSnapshot ==
  mode = "gui" =>
    /\ \A d \in Docs : nFail[d] <= startCfg.MAX_RETRIES
    /\ \A d \in finishedDocs \ okDocs :
         stop_requested \/ (nFail[d] = startCfg.MAX_RETRIES /\ contrib[d].f = 1)
    /\ wr.on => wr.dir = startCfg.LOG_DIR

\* C19: organize_document never raises; it returns a result whose success is
\* true exactly when both the copy and the metadata write succeeded, and
\* otherwise a result with success false, the original path and an error.
C19_OrganizeNeverRaises ==
  /\ o_pc # "raised"
  /\ o_pc = "returned" =>
       /\ o_result.success <=> (o_copied /\ o_meta)
       /\ o_result.original_path = o_in.pdf
       /\ ~o_result.success => o_result.error # "none"

\* a call whose copy succeeded and whose metadata write failed has returned
C19_Witness ==
  /\ o_pc = "returned"
  /\ o_copied /\ ~o_meta
  /\ ~o_result.success

\* C20: for every successful result new_path lies under
\* <processed_root>/<sanitized client name>/ and the sidecar with the same
\* stem and the .json extension is next to it.
C20_NewPathUnderClientDir ==
  (o_pc = "returned" /\ o_result.success) =>
    /\ Under(ClientDir(o_in), o_result.new_path.dir)
    /\ \E f \in tree :
         /\ f.dir = o_result.new_path.dir
         /\ Stem(f.name) = Stem(o_result.new_path.name)
         /\ f.name[Len(f.name)] = ".json"

\* the call that returned and the earlier successful one had the same client
\* and the same classification
SameDestinationInputs ==
  /\ o_pc = "returned"
  /\ o_result.success
  /\ o_last.valid
  /\ o_last.in.client = o_in.client
  /\ o_last.in.dtype = o_in.dtype
  /\ o_last.in.period = o_in.period

\* C21: two successful organize_document calls with the same client name,
\* document type and period return the same new_path, whatever the source
\* file, and the second call leaves the set of files in the output tree as
\* it found it: it overwrites the copy and the sidecar of the first.
C21_SameInputsSameDestination ==
  SameDestinationInputs =>
    /\ o_result.new_path = o_last.path
    /\ tree = o_tree0

C21_Witness ==
  /\ SameDestinationInputs
  /\ o_in.pdf # o_last.in.pdf
  /\ o_result.new_path \in tree

\* C22: clean_filename applied to its own result gives that result again.
C22_CleanIdempotent ==
  c_pc = "twice" => c_out2 = c_out

\* the characters of a text other than spaces, underscores and removed ones
Letters(t) == SelectSeq(t, LAMBDA c : c \in KeptChars \ {"_"})

\* the suffixes the text ends with after a space
TrailingSuffixes(t) ==
  {s \in NameSuffixes :
     /\ Len(t) > Len(s)
     /\ SubSeq(t, Len(t) - Len(s) + 1, Len(t)) = s
     /\ t[Len(t) - Len(s)] = Space}

\* C23: clean_filename returns "unknown" for the empty text; for any other
\* text the result holds only word characters, apostrophes and hyphens and
\* no two adjacent underscores, its letters are those of the text without
\* the trailing space-preceded suffix Jr/Jr./Sr/Sr./I/II/III/IV/V, in
\* order, every space left between kept letters shows as one underscore,
\* and "O'Brien Jr." gives "O'Brien" and "A  B" gives "A_B".
C23_CleanFollowsRules ==
  /\ clean_filename(<<"O", "'", "B", "r", "i", "e", "n", Space, "J", "r", ".">>)
       = <<"O", "'", "B", "r", "i", "e", "n">>
  /\ clean_filename(<<"A", Space, Space, "B">>) = <<"A", "_", "B">>
  /\ c_pc # "idle" =>
       IF c_in = <<>> THEN c_out = Unknown
       ELSE /\ Range(c_out) \subseteq WordChars \cup {"'", "-"}
            /\ \A i \in 1..(Len(c_out) - 1) : ~(c_out[i] = "_" /\ c_out[i + 1] = "_")
            /\ \A s \in TrailingSuffixes(c_in) :
                  Letters(c_out) = Letters(SubSeq(c_in, 1, Len(c_in) - Len(s) - 1))
            /\ TrailingSuffixes(c_in) = {} => Letters(c_out) = Letters(c_in)
            /\ \A i \in 2..(Len(c_in) - 1) :
                  (/\ TrailingSuffixes(c_in) = {}
                   /\ c_in[i] = Space
                   /\ c_in[i - 1] \in KeptChars \ {"_"}
                   /\ c_in[i + 1] \in KeptChars \ {"_"})
                  => \E m \in 2..(Len(c_out) - 1) :
                       /\ c_out[m] = "_"
                       /\ c_out[m - 1] = c_in[i - 1]
                       /\ c_out[m + 1] = c_in[i + 1]

C23_Witness ==
  /\ c_pc = "once"
  /\ c_in = <<"A", Space, "J", "r">>
  /\ c_out = <<"A">>

\* C24: a document's terminal event (document_completed or document_failed)
\* is emitted right after the progress and document_started events of that
\* same document: no event of another document lies between them.
C24_EventsNotInterleaved ==
  [][(lastEvt' # lastEvt /\ lastEvt'.kind \in {"completed", "failed"})
       => lastEvt = [doc |-> lastEvt'.doc, kind |-> "started"]]_vars

\* C25: once the checkpoint is loaded the list a run works on is the input
\* list without the checkpointed paths, in input order; the documents
\* started so far are a prefix of that list, each started once, and the
\* whole list when the run ended without a stop request; in the CLI the
\* documents started lie in consecutive batches, each a contiguous slice:
\* every batch before the current one is started in full and nothing
\* beyond the current batch is started.
C25_InputOrder ==
  /\ (mode # "none" /\ pc \notin {"load", "c_load"})
       => remaining_docs = FilterOut(document_paths, loaded)
  /\ Len(startSeq) <= Len(remaining_docs)
  /\ startSeq = SubSeq(remaining_docs, 1, Len(startSeq))
  /\ \A i, j \in 1..Len(startSeq) : startSeq[i] = startSeq[j] => i = j
  /\ Range(startSeq) = started
  /\ (mode # "none" /\ pc = "done" /\ ~stop_requested) => startSeq = remaining_docs
  /\ (mode = "cli" /\ pc \in {"c_doc", "c_while", "c_except", "c_save"})
       => /\ batch_start <= Len(startSeq)
          /\ Len(startSeq) <= BatchEnd
          /\ Len(startSeq) = batch_start + idx + (IF inflight # 0 THEN 1 ELSE 0)
          /\ inflight # 0 => inflight = remaining_docs[batch_start + idx + 1]

C25_Witness ==
  /\ mode = "gui" /\ pc = "done"
  /\ Len(document_paths) = 2
  /\ loaded \cap Range(document_paths) # {}
  /\ startSeq # <<>>
  /\ startSeq = remaining_docs

\* C26: the success and failure entries handed to the results view with
\* processing_complete are those of the run that just finished: as many
\* success entries as documents completed in it, as many failure entries
\* as documents it counted failed.
C26_OutcomeOfThisRun ==
  session.seen =>
    /\ session.results = Cardinality(completedEvt)
    /\ session.failed = results.failed

\* attempts of classify + organize made for the document
Attempts(d) == nFail[d] + (IF d \in okDocs THEN 1 ELSE 0)

C28_ModelCallRetry ==
  /\ a_calls <= ApiMaxRetries
  /\ a_calls = Len(a_errs) + (IF a_pc \in {"parse", "returned"} \/ a_out.at = "parse"
                               THEN 1 ELSE 0)
  /\ a_pc = "api" => a_calls = Len(a_errs)
  /\ \A k \in 1..Len(a_sleeps) : a_sleeps[k] = 2 ^ (k - 1)
  /\ Len(a_sleeps) = Min(Len(a_errs), ApiMaxRetries - 1)
  /\ (a_pc = "raised" /\ a_out.at = "api")
       <=> (Len(a_errs) = ApiMaxRetries /\ a_calls = ApiMaxRetries)
  /\ (a_pc = "raised" /\ a_out.at = "api") => a_out.error = a_errs[Len(a_errs)]

C28_Witness ==
  /\ a_pc = "raised"
  /\ a_out.at = "api"
  /\ a_errs = <<"timeout", "timeout", "overloaded">>
  /\ a_sleeps = <<1, 2>>
  /\ a_out.error = "overloaded"

\* the lines of the text that take the branch of the category
LinesOf(text, cat) ==
  {i \in 1..Len(text) : Strip(text[i]) # <<>> /\ LineCategory(Strip(text[i])) = cat}

\* the value after the colon of the first line of the category, else empty
FirstValue(text, cat) ==
  IF LinesOf(text, cat) = {} THEN <<>>
  ELSE LET i == CHOOSE m \in LinesOf(text, cat) : \A o \in LinesOf(text, cat) : m <= o
       IN IF Len(Split1(Strip(text[i]))) < 2 THEN <<>>
          ELSE Strip(Split1(Strip(text[i]))[2])

\* C29: in a result parse_ai_response returns, each of document_type,
\* period_year, institution and account_number holds the value of the first
\* line of the response that matches the category, the empty string when
\* no line matches, and raw_ai_response holds the response text.
C29_FirstMatchWins ==
  a_pc = "returned" =>
    /\ \A cat \in {"document_type", "period_year", "institution", "account_number"} :
         a_out.data[cat] = FirstValue(a_text, cat)
    /\ a_out.data.raw_ai_response = a_text

\* C30: parse_ai_response raises for no response text: an invocation of
\* process_document never fails in the parsing step.
C30_ParseNeverRaises ==
  ~(a_pc = "raised" /\ a_out.at = "parse")

\* ---------------------------------------------------------------- C31
\* the paths of the in-memory set that the checkpoint file does not hold
Unpersisted == processed_paths \ ckptFile[config.LOG_DIR].paths

\* C31: in the CLI pipeline, between two documents at most
\* CheckpointEvery - 1 = 4 processed paths of the in-memory set are missing
\* from the checkpoint file, and none is missing at a batch boundary or at
\* the end of the run
C31_FewUnpersisted ==
  mode = "cli" =>
    /\ (pc = "c_doc" /\ batch_start + idx \in 1..(Len(remaining_docs) - 1))
         => Cardinality(Unpersisted) <= CheckpointEvery - 1
    /\ pc \in {"c_batch", "done"} => Unpersisted = {}

\* ---------------------------------------------------------------- C32
\* the documents of the CLI run that ended without a successful attempt
PermanentlyFailed == finishedDocs \ okDocs

\* positions of the listed paths in the processing order of the run
InProcessingOrder(log) ==
  \A i, j \in 1..Len(log) :
    i < j => \E a, b \in 1..Len(remaining_docs) :
               a < b /\ remaining_docs[a] = log[i] /\ remaining_docs[b] = log[j]

\* C32: at the end of a CLI run the failed-document log is written if and
\* only if a document failed permanently; it lists each permanently failed
\* path exactly once, in processing order, and as many paths as the failed
\* counter says
C32_FailedLogExact ==
  (mode = "cli" /\ pc = "done") =>
    /\ (failedLog # <<>>) <=> (PermanentlyFailed # {})
    /\ Range(failedLog) = PermanentlyFailed
    /\ Injective(failedLog)
    /\ InProcessingOrder(failedLog)
    /\ Len(failedLog) = results.failed

\* ---------------------------------------------------------------- C33
\* the terminal events the GUI worker emitted for a document:
\* document_completed (once per path at most) and document_failed
TerminalEvents(d) == (IF d \in completedEvt THEN 1 ELSE 0) + contrib[d].f

\* the counter increments made for a document
Increments(d) == contrib[d].s + contrib[d].r + contrib[d].f

\* C33: when the GUI worker emits processing_finished, every document for
\* which document_started was emitted has got exactly one of
\* document_completed and document_failed and exactly one counter increment
C33_StartedReachTerminal ==
  (mode = "gui" /\ pc = "done") =>
    \A d \in started : TerminalEvents(d) = 1 /\ Increments(d) = 1

\* ---------------------------------------------------------------- C34
\* C34: at every point of a GUI or CLI run the three counters together do
\* not exceed the number of documents started, and no document has been
\* counted more than once
C34_CounterConsistency ==
  mode \in {"gui", "cli"} =>
    /\ results.success + results.retry_success + results.failed
         <= Cardinality(started)
    /\ \A d \in Docs : contrib[d].s + contrib[d].r + contrib[d].f <= 1

\* ---------------------------------------------------------------- C35
\* C35: at every point of a run the in-memory checkpoint set is the set
\* loaded at run start plus exactly the paths of the documents counted in
\* success or retry_success so far; a path is added only for a document
\* whose organize call returned success
C35_SetIsLoadedPlusSucceeded ==
  mode \in {"gui", "cli"} =>
    /\ processed_paths = loaded \cup CountedSucceeded
    /\ processed_paths \ loaded \subseteq okDocs

\* a resumed GUI run has counted a new document and holds it next to the
\* loaded paths
C35_Witness ==
  /\ mode = "gui"
  /\ loaded # {}
  /\ \E d \in Docs \ loaded : /\ contrib[d].s + contrib[d].r = 1
                                /\ d \in processed_paths
                                /\ loaded \subseteq processed_paths

\* ---------------------------------------------------------------- C36
\* C36: for one document of a GUI run the worker makes at most
\* MAX_RETRIES * API_MAX_RETRIES model API calls and at most
\* MAX_RETRIES * 3 PDF render calls: every attempt renders and classifies
\* again, with at most API_MAX_RETRIES calls and 3 renders of its own
C36_CallBudget ==
  mode = "gui" =>
    /\ a_docCalls <= config.MAX_RETRIES * ApiMaxRetries
    /\ a_docRenders <= config.MAX_RETRIES * PdfConversionRetries
    /\ (a_pc # "idle" \/ retry_count > 0 \/ success) =>
         /\ a_docCalls <= Min(retry_count + 1, config.MAX_RETRIES) * ApiMaxRetries
         /\ a_docRenders <= Min(retry_count + 1, config.MAX_RETRIES) * PdfConversionRetries

\* every attempt of a document rendered three times and called the API
\* three times: both budgets are used up
C36_Witness ==
  /\ mode = "gui"
  /\ inflight # 0
  /\ a_docCalls = config.MAX_RETRIES * ApiMaxRetries
  /\ a_docRenders = config.MAX_RETRIES * PdfConversionRetries

\* ---------------------------------------------------------------- C37
\* C37: two distinct source documents that organize_document placed
\* successfully for the client of one run never get the same new_path
C37_DistinctOutputs ==
  (/\ o_pc = "returned"
   /\ o_result.success
   /\ o_last.valid
   /\ o_last.in.client = o_in.client
   /\ o_last.in.pdf # o_in.pdf)
    => o_result.new_path # o_last.path

\* ---------------------------------------------------------------- C38
\* the files of the output tree that organize_document copied there
CopiedPdfs == {f \in tree : f.name[Len(f.name)] = ".pdf"}

\* C38: after any sequence of organize_document calls, failed ones included,
\* every PDF in the output tree has its sidecar JSON next to it
C38_PdfHasSidecar ==
  o_pc \in {"idle", "returned", "raised"} =>
    \A f \in CopiedPdfs : MetadataPath(f) \in tree

====
